---- MODULE Spec2Model ----
(***************************************************************************)
(* Sliding Window Protocol of src/swp.py: SWPSender (application thread    *)
(* in send/_send, retransmission timers, ACK-processing thread),           *)
(* SWPReceiver (receive loop, delivery queue), the two constructors and   *)
(* the lossy datagram link between the endpoints.                          *)
(***************************************************************************)
EXTENDS Integers, Sequences, FiniteSets, TLC

VARIABLES
    \* SWPSender
    last_ack_received,      \* LAR
    last_frame_sent,        \* LFS
    send_window_not_full,   \* value of the BoundedSemaphore
    snd_buffer,             \* seq_num -> data (the timer handle is in `timer`)
    lock,                   \* "free", or "timer" when a faulted handler holds it
    timer,                  \* seq_num -> state of the retransmission timer chain
    \* application thread inside SWPSender.send / _send
    appPc, appData, appI, appSeq,
    \* SWPSender._recv thread
    ackPc, ackSeq, ackCur, ackI,
    \* link (llp): datagrams in flight in each direction
    toRcv, toSnd,
    \* SWPReceiver
    last_frame_recd,        \* LFR
    last_acceptable_frame,  \* LAF
    rcv_buffer,             \* insertion-ordered sequence of <<seq_num, data>>
    ready_data,             \* queue.Queue of data for the application
    \* observers
    chunks,                 \* every chunk send() has cut so far, in order
    returned,               \* every value Receiver.recv() has returned, in order
    enq_seqs,               \* sequence numbers in the order their data was enqueued
    rcv_seq,                \* seq_num of the datagram of the last receive iteration
    rcv_sent,               \* ACK numbers transmitted by the last receive iteration
    ack_raw,                \* what recv() returned to the last AckLoop iteration
    \* SWPReceiver._recv thread
    rcvPc,
    \* a second application thread inside SWPSender.send / _send
    app2Pc, app2Data, app2Seq,
    \* SWPSender.__init__ and SWPReceiver.__init__
    sndCtor, rcvCtor

sndVars == <<last_ack_received, last_frame_sent, send_window_not_full,
             snd_buffer, lock, timer>>
appVars == <<appPc, appData, appI, appSeq, chunks>>
ackVars == <<ackPc, ackSeq, ackCur, ackI>>
rcvVars == <<last_frame_recd, last_acceptable_frame, rcv_buffer, ready_data,
             enq_seqs, rcv_seq, rcv_sent>>
app2Vars == <<app2Pc, app2Data, app2Seq>>
ctorVars == <<sndCtor, rcvCtor>>
otherVars == <<app2Vars, ctorVars, rcvPc, ack_raw>>
vars == <<sndVars, appVars, ackVars, toRcv, toSnd, rcvVars, returned, otherVars>>

----------------------------------------------------------------------------
\* Program constants
MAX_DATA_SIZE == 1400
SEND_WINDOW_SIZE == 5
RECV_WINDOW_SIZE == 5
DATA == 68
ACK == 65

\* Bounds of the model
MaxSeq == 2         \* segments the application may send in the full system
SndMaxSeq == 6      \* segments the application may send, sender under any ACKs
SndMaxExpired == 1  \* sequence numbers whose timer expires, sender under any ACKs
SegMaxSeq == 4      \* segments the application may send, no timer expiring
RcvMaxSeq == 7      \* highest sequence number arriving, receiver under any DATA
LoopMaxSeq == 2     \* segments the application may send, loops under any datagram
MtMaxSeq == 3       \* segments two application threads may send
CtorMaxSeq == 2     \* segments sent and arriving while and after the constructors run
PairMaxSeq == 2     \* segments the application may send, no timer expiring

Min(a, b) == IF a < b THEN a ELSE b

\* Data lengths the application passes to send()
DataLens == {MAX_DATA_SIZE, 2800}
SndLens == {MAX_DATA_SIZE, 7200}
SegLens == {1, 200, MAX_DATA_SIZE, 1401, 2800, 3000}

----------------------------------------------------------------------------
\* SWPPacket and its wire form

SWPPacket(type, seq_num, data) == [type |-> type, seq_num |-> seq_num, data |-> data]

\* header (type tag, sequence number) followed by the data
to_bytes(packet) == [tag |-> packet.type, seq |-> packet.seq_num, rest |-> packet.data]

from_bytes(raw) == SWPPacket(raw.tag, raw.seq, raw.rest)

NoData == <<>>

\* what llp_endpoint.recv() returns besides the bytes of a packet: None, and
\* a datagram of n bytes that is shorter than the header
None == [none |-> TRUE]

Truncated(n) == [len |-> n]

IsNone(raw) == "none" \in DOMAIN raw

\* lines 42-44: struct.unpack raises struct.error unless raw[:5] has the 5
\* bytes of the header, and SWPType(header[0]) raises ValueError for a type
\* tag that is neither DATA nor ACK
Decodes(raw) == "tag" \in DOMAIN raw /\ raw.tag \in {DATA, ACK}

----------------------------------------------------------------------------
\* SWPSender.send: the chunks data[i:i+MAX_DATA_SIZE]; data is the byte range
\* [base, base+len) of the stream the application has sent so far.

\* the chunk cut without regard to the end of data
Slice_NoClip(base, len, i) == <<base + i, base + i + MAX_DATA_SIZE>>

Slice(base, len, i) == <<base + i, base + Min(i + MAX_DATA_SIZE, len)>>

RECURSIVE Segments(_, _, _)
Segments(base, len, i) ==
    IF i >= len THEN <<>>
    ELSE <<Slice(base, len, i)>> \o Segments(base, len, i + MAX_DATA_SIZE)

StreamLen == IF chunks = <<>> THEN 0 ELSE chunks[Len(chunks)][2]

\* the fields as the two constructors leave them
InitFields ==
    /\ last_ack_received = 0
    /\ last_frame_sent = 0
    /\ send_window_not_full = SEND_WINDOW_SIZE
    /\ snd_buffer = <<>>
    /\ lock = "free"
    /\ timer = <<>>
    /\ appPc = "idle" /\ appData = <<0, 0>> /\ appI = 0 /\ appSeq = 0
    /\ ackPc = "recv" /\ ackSeq = 0 /\ ackCur = 0 /\ ackI = 0
    /\ toRcv = {} /\ toSnd = {}
    /\ last_frame_recd = 0
    /\ last_acceptable_frame = 0 + RECV_WINDOW_SIZE
    /\ rcv_buffer = <<>>
    /\ ready_data = <<>>
    /\ chunks = <<>> /\ returned = <<>> /\ enq_seqs = <<>>
    /\ rcv_seq = 0 /\ rcv_sent = <<>> /\ ack_raw = None
    /\ rcvPc = "recv"
    /\ app2Pc = "idle" /\ app2Data = <<0, 0>> /\ app2Seq = 0

\* both constructors have returned
Init ==
    /\ InitFields
    /\ sndCtor = "done" /\ rcvCtor = "done"

----------------------------------------------------------------------------
\* Retransmission timers. One chain of threading.Timer objects per seq_num:
\*   "new"        created in _send, in the buffer, not started yet
\*   "armed"      the timer of the buffer entry is running (cancel() stops it)
\*   "cancelled"  the timer of the buffer entry was cancelled
\*   "fired"      a timer expired: _retransmit(seq_num) was called and is at
\*                lock.acquire()
\*   "rearmed"    a timer started by _retransmit is running; the buffer entry
\*                still holds the first timer, so cancel() does not stop it
\*   "faulted"    _retransmit raised TypeError with the lock held
TimerOf(k) == IF k \in DOMAIN timer THEN timer[k] ELSE "none"

SetTimer(k, st) == (k :> st) @@ timer

\* timer.cancel() on the timer stored in the buffer entry (line 144)
Cancel(st) == IF st \in {"new", "armed"} THEN "cancelled" ELSE st

\* timer.start() on the timer created in _send (line 104)
Start(st) == IF st = "new" THEN "armed" ELSE st

----------------------------------------------------------------------------
\* SWPSender.send / _send, one application thread

\* send(data): the loop over range(0, len(data), MAX_DATA_SIZE) begins
AppSend(len, maxSeq) ==
    /\ appPc = "idle"
    /\ Len(chunks) + Len(Segments(0, len, 0)) <= maxSeq
    /\ appData' = <<StreamLen, len>>
    /\ appI' = 0
    /\ chunks' = chunks \o Segments(StreamLen, len, 0)
    /\ appPc' = "acquire"
    /\ UNCHANGED <<sndVars, appSeq, ackVars, toRcv, toSnd, rcvVars, returned,
                   otherVars>>

\* acquire() that does not wait for a permit
AppAcquire_NoWait ==
    /\ appPc = "acquire"
    /\ send_window_not_full' =
          IF send_window_not_full > 0 THEN send_window_not_full - 1 ELSE 0
    /\ appPc' = "assign"
    /\ UNCHANGED <<last_ack_received, last_frame_sent, snd_buffer, lock, timer,
                   appData, appI, appSeq, chunks, ackVars, toRcv, toSnd,
                   rcvVars, returned,
                   otherVars>>

\* line 84: self._send_window_not_full.acquire()
AppAcquire ==
    /\ appPc = "acquire"
    /\ send_window_not_full > 0
    /\ send_window_not_full' = send_window_not_full - 1
    /\ appPc' = "assign"
    /\ UNCHANGED <<last_ack_received, last_frame_sent, snd_buffer, lock, timer,
                   appData, appI, appSeq, chunks, ackVars, toRcv, toSnd,
                   rcvVars, returned,
                   otherVars>>

\* lines 87-88: seq_num = LFS + 1; LFS = seq_num
AppAssign ==
    /\ appPc = "assign"
    /\ appSeq' = last_frame_sent + 1
    /\ last_frame_sent' = last_frame_sent + 1
    /\ appPc' = "insert"
    /\ UNCHANGED <<last_ack_received, send_window_not_full, snd_buffer, lock,
                   timer, appData, appI, chunks, ackVars, toRcv, toSnd,
                   rcvVars, returned,
                   otherVars>>

\* lines 91-100: under the lock, buffer[seq_num] = (data, timer) and transmit
AppInsert ==
    /\ appPc = "insert"
    /\ lock = "free"
    /\ LET data == Slice(appData[1], appData[2], appI)
       IN /\ snd_buffer' = (appSeq :> data) @@ snd_buffer
          /\ toRcv' = toRcv \cup {to_bytes(SWPPacket(DATA, appSeq, data))}
    /\ timer' = SetTimer(appSeq, "new")
    /\ appPc' = "start"
    /\ UNCHANGED <<last_ack_received, last_frame_sent, send_window_not_full,
                   lock, appData, appI, appSeq, chunks, ackVars, toSnd,
                   rcvVars, returned,
                   otherVars>>

\* line 104: timer.start(); then the next chunk of send(), or send() returns
AppStart ==
    /\ appPc = "start"
    /\ timer' = SetTimer(appSeq, Start(TimerOf(appSeq)))
    /\ appI' = appI + MAX_DATA_SIZE
    /\ appPc' = IF appI + MAX_DATA_SIZE < appData[2] THEN "acquire" ELSE "idle"
    /\ UNCHANGED <<last_ack_received, last_frame_sent, send_window_not_full,
                   snd_buffer, lock, appData, appSeq, chunks, ackVars, toRcv,
                   toSnd, rcvVars, returned,
                   otherVars>>

----------------------------------------------------------------------------
\* SWPSender._retransmit, run by a timer thread

\* the timer of seq_num expires and calls _retransmit(seq_num)
TimerExpire(k) ==
    /\ TimerOf(k) \in {"armed", "rearmed"}
    /\ timer' = SetTimer(k, "fired")
    /\ UNCHANGED <<last_ack_received, last_frame_sent, send_window_not_full,
                   snd_buffer, lock, appVars, ackVars, toRcv, toSnd, rcvVars,
                   returned,
                   otherVars>>

\* lines 111-121. self._buffer.get(seq_num) is None for a purged entry, and
\* unpacking None raises TypeError between lock.acquire() and lock.release().
Retransmit(k) ==
    /\ TimerOf(k) = "fired"
    /\ lock = "free"
    /\ IF k \in DOMAIN snd_buffer
       THEN /\ toRcv' = toRcv \cup {to_bytes(SWPPacket(DATA, k, snd_buffer[k]))}
            /\ timer' = SetTimer(k, "rearmed")
            /\ lock' = lock
       ELSE /\ lock' = "timer"
            /\ timer' = SetTimer(k, "faulted")
            /\ toRcv' = toRcv
    /\ UNCHANGED <<last_ack_received, last_frame_sent, send_window_not_full,
                   snd_buffer, appVars, ackVars, toSnd, rcvVars, returned,
                   otherVars>>

----------------------------------------------------------------------------
\* SWPSender._recv, the ACK-processing thread

\* the purge that removes nothing
Purge_None(buffer, seq_num) == buffer

\* the purge that also removes the entry after the acknowledged one
Purge_OneMore(buffer, seq_num) ==
    [k \in {j \in DOMAIN buffer : j > seq_num + 1} |-> buffer[k]]

\* line 154: {k:v for k, v in self._buffer.items() if k > seq_num}
Purge(buffer, seq_num) ==
    [k \in {j \in DOMAIN buffer : j > seq_num} |-> buffer[k]]

\* the loop without the test of line 139: every ACK is processed
AckRecv_AnyAck(raw) ==
    /\ ackPc = "recv"
    /\ LET packet == from_bytes(raw)
       IN IF packet.type = ACK
          THEN /\ ackSeq' = packet.seq_num
               /\ ackPc' = "cancel"
          ELSE UNCHANGED <<ackSeq, ackPc>>
    /\ UNCHANGED <<sndVars, appVars, ackCur, ackI, toRcv, rcvVars, returned,
                   app2Vars, ctorVars, rcvPc>>

\* lines 128-139: take a datagram; ignore it unless it is an ACK whose
\* seq_num is in the buffer
AckRecv(raw) ==
    /\ ackPc = "recv"
    /\ LET packet == from_bytes(raw)
       IN IF packet.type = ACK /\ packet.seq_num \in DOMAIN snd_buffer
          THEN /\ ackSeq' = packet.seq_num
               /\ ackPc' = "cancel"
          ELSE UNCHANGED <<ackSeq, ackPc>>
    /\ UNCHANGED <<sndVars, appVars, ackCur, ackI, toRcv, rcvVars, returned,
                   app2Vars, ctorVars, rcvPc>>

\* lines 142-145: under the lock, cancel the timer of the buffer entry
AckCancel ==
    /\ ackPc = "cancel"
    /\ lock = "free"
    /\ timer' = SetTimer(ackSeq, Cancel(TimerOf(ackSeq)))
    /\ ackPc' = "update"
    /\ UNCHANGED <<last_ack_received, last_frame_sent, send_window_not_full,
                   snd_buffer, lock, appVars, ackSeq, ackCur, ackI, toRcv,
                   toSnd, rcvVars, returned,
                   otherVars>>

\* lines 148-149: current_last_ack = LAR; LAR = seq_num
AckUpdate ==
    /\ ackPc = "update"
    /\ ackCur' = last_ack_received
    /\ last_ack_received' = ackSeq
    /\ ackPc' = "purge"
    /\ UNCHANGED <<last_frame_sent, send_window_not_full, snd_buffer, lock,
                   timer, appVars, ackSeq, ackI, toRcv, toSnd, rcvVars,
                   returned,
                   otherVars>>

\* lines 153-156 and the start of the loop of line 159
AckPurge ==
    /\ ackPc = "purge"
    /\ lock = "free"
    /\ snd_buffer' = Purge(snd_buffer, ackSeq)
    /\ ackI' = ackCur
    /\ ackPc' = IF ackCur < ackSeq THEN "release" ELSE "recv"
    /\ UNCHANGED <<last_ack_received, last_frame_sent, send_window_not_full,
                   lock, timer, appVars, ackSeq, ackCur, toRcv, toSnd,
                   rcvVars, returned,
                   otherVars>>

\* a single release() in place of the loop over range(current_last_ack, seq_num)
AckRelease_Once ==
    /\ ackPc = "release"
    /\ send_window_not_full' = send_window_not_full + 1
    /\ ackI' = ackI + 1
    /\ ackPc' = "recv"
    /\ UNCHANGED <<last_ack_received, last_frame_sent, snd_buffer, lock,
                   timer, appVars, ackSeq, ackCur, toRcv, toSnd, rcvVars,
                   returned,
                   otherVars>>

\* lines 159-160: one iteration of the loop. BoundedSemaphore.release()
\* raises ValueError when the value would exceed the initial value.
AckRelease ==
    /\ ackPc = "release"
    /\ IF send_window_not_full >= SEND_WINDOW_SIZE
       THEN /\ ackPc' = "faulted"
            /\ UNCHANGED <<send_window_not_full, ackI>>
       ELSE /\ send_window_not_full' = send_window_not_full + 1
            /\ ackI' = ackI + 1
            /\ ackPc' = IF ackI + 1 < ackSeq THEN "release" ELSE "recv"
    /\ UNCHANGED <<last_ack_received, last_frame_sent, snd_buffer, lock,
                   timer, appVars, ackSeq, ackCur, toRcv, toSnd, rcvVars,
                   returned,
                   otherVars>>

----------------------------------------------------------------------------
\* SWPReceiver

\* the window test with < for <=: a second arrival of segment LFR passes
InWindow_Strict(seq_num) ==
    ~(seq_num < last_frame_recd \/ seq_num > last_acceptable_frame)

\* the window test without its upper limit
InWindow_NoLimit(seq_num) == ~(seq_num <= last_frame_recd)

\* line 197, negated: the segment is inside the receive window
InWindow(seq_num) ==
    ~(seq_num <= last_frame_recd \/ seq_num > last_acceptable_frame)

Keys(buffer) == {buffer[j][1] : j \in 1..Len(buffer)}

\* line 206: self._buffer[seq_num] = data. A key already present keeps its
\* place in the iteration order, a new key goes last.
Put(buffer, seq_num, data) ==
    IF seq_num \in Keys(buffer)
    THEN [j \in 1..Len(buffer) |->
             IF buffer[j][1] = seq_num THEN <<seq_num, data>> ELSE buffer[j]]
    ELSE Append(buffer, <<seq_num, data>>)

\* the scan that steps over a missing sequence number: it ends at the
\* highest sequence number in the buffer
Scan_Highest(buffer, i) ==
    IF \E k \in Keys(buffer) : k >= i
    THEN CHOOSE k \in Keys(buffer) : \A j \in Keys(buffer) : j <= k
    ELSE i - 1

\* lines 210-217: the last of the consecutive sequence numbers in the buffer
\* that follow LFR
RECURSIVE Scan(_, _)
Scan(buffer, i) == IF i \in Keys(buffer) THEN Scan(buffer, i + 1) ELSE i - 1

\* line 222: the entries the loop of lines 221-225 enqueues, in the order
\* the loop meets them (the iteration order of the buffer)
Taken(buffer, seq_num_to_ack) ==
    LET take(e) == e[1] <= seq_num_to_ack IN SelectSeq(buffer, take)

\* line 225: the entries that stay in new_buffer
Kept(buffer, seq_num_to_ack) ==
    LET keep(e) == ~(e[1] <= seq_num_to_ack) IN SelectSeq(buffer, keep)

Column(buffer, c) == [j \in 1..Len(buffer) |-> buffer[j][c]]

\* the ACK that carries the next sequence number expected
AckBytes_Next(seq_num) == to_bytes(SWPPacket(ACK, seq_num + 1, NoData))

\* lines 201-202 and 235-236: the bytes of SWPPacket(SWPType.ACK, seq_num)
AckBytes(seq_num) == to_bytes(SWPPacket(ACK, seq_num, NoData))

\* lines 191-238: one iteration of the receive loop on datagram raw
RcvHandle(raw) ==
    LET packet == from_bytes(raw)
        seq_num == packet.seq_num
        buffer == Put(rcv_buffer, seq_num, packet.data)
        seq_num_to_ack == Scan(buffer, last_frame_recd + 1)
        taken == Taken(buffer, seq_num_to_ack)
    IN  /\ rcv_seq' = seq_num
        /\ IF ~InWindow(seq_num)
           THEN /\ rcv_sent' = <<>>
                /\ UNCHANGED <<last_frame_recd, last_acceptable_frame,
                               rcv_buffer, ready_data, enq_seqs, toSnd>>
           ELSE /\ rcv_buffer' = Kept(buffer, seq_num_to_ack)
                /\ ready_data' = ready_data \o Column(taken, 2)
                /\ enq_seqs' = enq_seqs \o Column(taken, 1)
                /\ last_frame_recd' = seq_num_to_ack
                /\ last_acceptable_frame' = seq_num_to_ack + RECV_WINDOW_SIZE
                /\ toSnd' = toSnd \cup {AckBytes(last_frame_recd),
                                        AckBytes(seq_num_to_ack)}
                /\ rcv_sent' = <<last_frame_recd, seq_num_to_ack>>

\* lines 185-186: Receiver.recv() takes the head of the queue
AppRecv ==
    /\ ready_data # <<>>
    /\ returned' = Append(returned, Head(ready_data))
    /\ ready_data' = Tail(ready_data)
    /\ UNCHANGED <<sndVars, appVars, ackVars, toRcv, toSnd, last_frame_recd,
                   last_acceptable_frame, rcv_buffer, enq_seqs, rcv_seq,
                   rcv_sent, otherVars>>

----------------------------------------------------------------------------
\* The link: llp_endpoint.recv() hands over a datagram in flight, in any
\* order; the link may lose it or hand it over again later.

Receive(raw) ==
    /\ rcvPc = "recv"
    /\ raw \in toRcv
    /\ toRcv' \in {toRcv \ {raw}, toRcv}
    /\ RcvHandle(raw)
    /\ UNCHANGED <<sndVars, appVars, ackVars, returned,
                   otherVars>>

AckReceive(raw) ==
    /\ raw \in toSnd
    /\ toSnd' \in {toSnd \ {raw}, toSnd}
    /\ ack_raw' = ack_raw
    /\ AckRecv(raw)

DropData(raw) ==
    /\ raw \in toRcv
    /\ toRcv' = toRcv \ {raw}
    /\ UNCHANGED <<sndVars, appVars, ackVars, toSnd, rcvVars, returned,
                   otherVars>>

DropAck(raw) ==
    /\ raw \in toSnd
    /\ toSnd' = toSnd \ {raw}
    /\ UNCHANGED <<sndVars, appVars, ackVars, toRcv, rcvVars, returned,
                   otherVars>>

----------------------------------------------------------------------------
\* The full system: one sender, one receiver, the link between them

AppStep == AppAcquire \/ AppAssign \/ AppInsert \/ AppStart

TimerStep == \E k \in DOMAIN timer : TimerExpire(k) \/ Retransmit(k)

AckStep == AckCancel \/ AckUpdate \/ AckPurge \/ AckRelease

Next ==
    \/ \E len \in DataLens : AppSend(len, MaxSeq)
    \/ AppStep
    \/ TimerStep
    \/ \E raw \in toSnd : AckReceive(raw)
    \/ AckStep
    \/ \E raw \in toRcv : Receive(raw)
    \/ \E raw \in toRcv : DropData(raw)
    \/ \E raw \in toSnd : DropAck(raw)

Spec == Init /\ [][Next]_vars

\* Scheduling: every thread that can take a step eventually takes one, every
\* running timer eventually expires, and the link is fair-lossy: a datagram
\* that is in flight again and again is handed over again and again.
Fairness ==
    /\ WF_vars(AppStep)
    /\ WF_vars(AckStep)
    /\ \A k \in 1..MaxSeq : WF_vars(TimerExpire(k) \/ Retransmit(k))
    /\ \A k \in 1..MaxSeq :
           SF_vars(\E raw \in toRcv : raw.seq = k /\ Receive(raw))
    /\ \A k \in 0..MaxSeq :
           SF_vars(\E raw \in toSnd : raw.seq = k /\ AckReceive(raw))

FairSpec == Spec /\ Fairness

----------------------------------------------------------------------------
\* The sender/receiver pair when no retransmission timer expires. A
\* retransmission puts on the link a datagram that is, or was, on it
\* already, and the link may hand over such a datagram again in any case.

PairNext ==
    \/ \E len \in DataLens : AppSend(len, PairMaxSeq)
    \/ AppStep
    \/ \E raw \in toSnd : AckReceive(raw)
    \/ AckStep
    \/ \E raw \in toRcv : Receive(raw)
    \/ \E raw \in toRcv : DropData(raw)
    \/ \E raw \in toSnd : DropAck(raw)

PairSpec == Init /\ [][PairNext]_vars

----------------------------------------------------------------------------
\* The sender alone: the link may hand any acknowledgment number to the
\* ACK-processing thread at any time.

AckArrive(seq_num) ==
    /\ toSnd' = toSnd
    /\ ack_raw' = ack_raw
    /\ AckRecv(AckBytes(seq_num))

\* the sequence numbers whose timer has expired at least once
Expired == {k \in DOMAIN timer : timer[k] \in {"fired", "rearmed", "faulted"}}

\* timers expire for at most SndMaxExpired different sequence numbers
SndTimerStep ==
    \E k \in DOMAIN timer :
        \/ /\ k \in Expired \/ Cardinality(Expired) < SndMaxExpired
           /\ TimerExpire(k)
        \/ Retransmit(k)

SndNext ==
    \/ \E len \in SndLens : AppSend(len, SndMaxSeq)
    \/ AppStep
    \/ SndTimerStep
    \/ \E seq_num \in 0..SndMaxSeq : AckArrive(seq_num)
    \/ AckStep

SndSpec == Init /\ [][SndNext]_vars

\* The sender when every acknowledgment arrives before its timer expires
SegNext ==
    \/ \E len \in SegLens : AppSend(len, SegMaxSeq)
    \/ AppStep
    \/ \E seq_num \in 0..SegMaxSeq : AckArrive(seq_num)
    \/ AckStep

SegSpec == Init /\ [][SegNext]_vars

----------------------------------------------------------------------------
\* The receiver alone: the link may hand any DATA segment to the receive
\* loop at any time, in any order and any number of times; the application
\* calls recv().

DataBytes(seq_num) ==
    to_bytes(SWPPacket(DATA, seq_num,
                       Slice(0, RcvMaxSeq * MAX_DATA_SIZE,
                             (seq_num - 1) * MAX_DATA_SIZE)))

Arrive(seq_num) ==
    /\ rcvPc = "recv"
    /\ toRcv' = toRcv
    /\ RcvHandle(DataBytes(seq_num))
    /\ UNCHANGED <<sndVars, appVars, ackVars, returned,
                   otherVars>>

RcvNext ==
    \/ \E seq_num \in 1..RcvMaxSeq : Arrive(seq_num)
    \/ AppRecv

RcvSpec == Init /\ [][RcvNext]_vars

----------------------------------------------------------------------------
\* The two worker loops on whatever llp_endpoint.recv() returns, at any
\* point of the constructor that started them.

\* SWPSender._recv, lines 128-139. None is skipped (line 129); from_bytes
\* raises on a datagram that does not decode; self._buffer of line 139 does
\* not exist before line 73. Nothing in the loop catches an exception.
AckLoop(raw) ==
    /\ ackPc = "recv"
    /\ toSnd' = toSnd
    /\ ack_raw' = raw
    /\ IF IsNone(raw)
       THEN UNCHANGED <<sndVars, appVars, ackVars, toRcv, rcvVars, returned,
                        app2Vars, ctorVars, rcvPc>>
       ELSE IF ~Decodes(raw) \/ (from_bytes(raw).type = ACK /\ sndCtor # "done")
       THEN /\ ackPc' = "faulted"
            /\ UNCHANGED <<sndVars, appVars, ackSeq, ackCur, ackI, toRcv,
                           rcvVars, returned, app2Vars, ctorVars, rcvPc>>
       ELSE AckRecv(raw)

\* SWPReceiver._recv, lines 191-238. from_bytes raises on None and on a
\* datagram that does not decode; self._last_frame_recd of line 197 does not
\* exist before line 180, and self._buffer of line 206, used after the ACK
\* of line 203 is sent, does not exist before line 183.
RcvLoop(raw) ==
    /\ rcvPc = "recv"
    /\ toRcv' = toRcv
    /\ IF IsNone(raw) \/ ~Decodes(raw) \/ rcvCtor = "started"
       THEN /\ rcvPc' = "faulted"
            /\ UNCHANGED <<rcvVars, toSnd>>
       ELSE IF rcvCtor = "window" /\ InWindow(from_bytes(raw).seq_num)
       THEN /\ rcvPc' = "faulted"
            /\ toSnd' = toSnd \cup {AckBytes(last_frame_recd)}
            /\ rcv_seq' = from_bytes(raw).seq_num
            /\ rcv_sent' = <<last_frame_recd>>
            /\ UNCHANGED <<last_frame_recd, last_acceptable_frame, rcv_buffer,
                           ready_data, enq_seqs>>
       ELSE /\ RcvHandle(raw)
            /\ rcvPc' = rcvPc
    /\ UNCHANGED <<sndVars, appVars, ackVars, returned, app2Vars, ctorVars,
                   ack_raw>>

\* a datagram with a type tag that is neither DATA nor ACK
UnknownTag == [tag |-> 88, seq |-> 1, rest |-> NoData]

Undecodable == {Truncated(n) : n \in 0..4} \cup {UnknownTag}

\* what the link may hand to the sender's loop and to the receiver's loop
LoopAcks ==
    {None, DataBytes(1)} \cup Undecodable
        \cup {AckBytes(k) : k \in 0..(LoopMaxSeq + 1)}

LoopDatas == {None, DataBytes(1)} \cup Undecodable

LoopNext ==
    \/ AppSend(MAX_DATA_SIZE, LoopMaxSeq)
    \/ AppStep
    \/ TimerStep
    \/ \E raw \in LoopAcks : AckLoop(raw)
    \/ AckStep
    \/ \E raw \in LoopDatas : RcvLoop(raw)

LoopSpec == Init /\ [][LoopNext]_vars

----------------------------------------------------------------------------
\* Two application threads in send() on one SWPSender. The second thread
\* sends one chunk per call; its lines 87 and 88 are separate steps.

App2Send(len, maxSeq) ==
    /\ app2Pc = "idle"
    /\ len <= MAX_DATA_SIZE
    /\ Len(chunks) + Len(Segments(0, len, 0)) <= maxSeq
    /\ app2Data' = <<StreamLen, len>>
    /\ chunks' = chunks \o Segments(StreamLen, len, 0)
    /\ app2Pc' = "acquire"
    /\ UNCHANGED <<sndVars, appPc, appData, appI, appSeq, ackVars, toRcv,
                   toSnd, rcvVars, returned, app2Seq, ctorVars, rcvPc, ack_raw>>

\* line 84
App2Acquire ==
    /\ app2Pc = "acquire"
    /\ send_window_not_full > 0
    /\ send_window_not_full' = send_window_not_full - 1
    /\ app2Pc' = "read"
    /\ UNCHANGED <<last_ack_received, last_frame_sent, snd_buffer, lock, timer,
                   appVars, ackVars, toRcv, toSnd, rcvVars, returned,
                   app2Data, app2Seq, ctorVars, rcvPc, ack_raw>>

\* line 87: seq_num = self._last_frame_sent + 1
App2Read ==
    /\ app2Pc = "read"
    /\ app2Seq' = last_frame_sent + 1
    /\ app2Pc' = "write"
    /\ UNCHANGED <<sndVars, appVars, ackVars, toRcv, toSnd, rcvVars, returned,
                   app2Data, ctorVars, rcvPc, ack_raw>>

\* line 88: self._last_frame_sent = seq_num
App2Write ==
    /\ app2Pc = "write"
    /\ last_frame_sent' = app2Seq
    /\ app2Pc' = "insert"
    /\ UNCHANGED <<last_ack_received, send_window_not_full, snd_buffer, lock,
                   timer, appVars, ackVars, toRcv, toSnd, rcvVars, returned,
                   app2Data, app2Seq, ctorVars, rcvPc, ack_raw>>

\* lines 91-100
App2Insert ==
    /\ app2Pc = "insert"
    /\ lock = "free"
    /\ LET data == Slice(app2Data[1], app2Data[2], 0)
       IN /\ snd_buffer' = (app2Seq :> data) @@ snd_buffer
          /\ toRcv' = toRcv \cup {to_bytes(SWPPacket(DATA, app2Seq, data))}
    /\ timer' = SetTimer(app2Seq, "new")
    /\ app2Pc' = "start"
    /\ UNCHANGED <<last_ack_received, last_frame_sent, send_window_not_full,
                   lock, appVars, ackVars, toSnd, rcvVars, returned,
                   app2Data, app2Seq, ctorVars, rcvPc, ack_raw>>

\* line 104, and send() returns
App2Start ==
    /\ app2Pc = "start"
    /\ timer' = SetTimer(app2Seq, Start(TimerOf(app2Seq)))
    /\ app2Pc' = "idle"
    /\ UNCHANGED <<last_ack_received, last_frame_sent, send_window_not_full,
                   snd_buffer, lock, appVars, ackVars, toRcv, toSnd, rcvVars,
                   returned, app2Data, app2Seq, ctorVars, rcvPc, ack_raw>>

App2Step ==
    App2Acquire \/ App2Read \/ App2Write \/ App2Insert \/ App2Start

MtNext ==
    \/ AppSend(MAX_DATA_SIZE, MtMaxSeq)
    \/ AppStep
    \/ App2Send(MAX_DATA_SIZE, MtMaxSeq)
    \/ App2Step
    \/ \E seq_num \in 0..MtMaxSeq : AckArrive(seq_num)
    \/ AckStep

MtSpec == Init /\ [][MtNext]_vars

----------------------------------------------------------------------------
\* The constructors. Each starts its worker thread (lines 62 and 176) before
\* it assigns the sliding-window fields; a field does not exist until it is
\* assigned, and the application uses an object only after its constructor
\* has returned.

\* both worker threads have just been started
CtorInit ==
    /\ InitFields
    /\ sndCtor = "started" /\ rcvCtor = "started"

\* SWPSender.__init__, lines 65-76
SndCtor ==
    /\ sndCtor = "started"
    /\ sndCtor' = "done"
    /\ UNCHANGED <<sndVars, appVars, ackVars, toRcv, toSnd, rcvVars, returned,
                   app2Vars, rcvCtor, rcvPc, ack_raw>>

\* SWPReceiver.__init__, lines 179-180 and then line 183
RcvCtor ==
    /\ rcvCtor \in {"started", "window"}
    /\ rcvCtor' = IF rcvCtor = "started" THEN "window" ELSE "done"
    /\ UNCHANGED <<sndVars, appVars, ackVars, toRcv, toSnd, rcvVars, returned,
                   app2Vars, sndCtor, rcvPc, ack_raw>>

\* send() on the constructed sender
CtorApp ==
    /\ sndCtor = "done"
    /\ AppSend(MAX_DATA_SIZE, CtorMaxSeq) \/ AppStep

\* well-formed datagrams the link may hold when a thread starts, and later
CtorAcks == {AckBytes(k) : k \in 0..CtorMaxSeq}

CtorDatas == {DataBytes(k) : k \in 1..CtorMaxSeq} \cup {DataBytes(RECV_WINDOW_SIZE + 1)}

CtorNext ==
    \/ SndCtor
    \/ RcvCtor
    \/ CtorApp
    \/ \E raw \in CtorAcks : AckLoop(raw)
    \/ AckStep
    \/ \E raw \in CtorDatas : RcvLoop(raw)

CtorSpec == CtorInit /\ [][CtorNext]_vars

----------------------------------------------------------------------------
\* Properties

Range(s) == {s[j] : j \in 1..Len(s)}

IsPrefix(s, t) == Len(s) <= Len(t) /\ \A j \in 1..Len(s) : s[j] = t[j]

\* every payload put on the delivery queue so far, in the order of the puts
Delivered == returned \o ready_data

\* C1: the payloads enqueued for recv() are, in order, a prefix of the chunks
\* c1..cn that send() cut, and their sequence numbers were enqueued in
\* strictly ascending order, whatever the link lost, repeated or reordered.
C1_InOrderDelivery ==
    /\ IsPrefix(Delivered, chunks)
    /\ \A j \in 1..(Len(enq_seqs) - 1) : enq_seqs[j] < enq_seqs[j + 1]

\* chunk i of send() has been put on the delivery queue
Enqueued(i) == Len(chunks) >= i /\ chunks[i] \in Range(Delivered)

\* C2: under fair scheduling and a fair-lossy link, every chunk passed to
\* send() is eventually enqueued for recv().
C2_EventualDelivery ==
    \A i \in 1..MaxSeq : (Len(chunks) >= i) ~> Enqueued(i)

\* C3: no sequence number is enqueued twice, and no payload is enqueued
\* twice, however often a DATA segment arrives.
C3_ExactlyOnce ==
    /\ \A i, j \in 1..Len(enq_seqs) : i # j => enq_seqs[i] # enq_seqs[j]
    /\ \A i, j \in 1..Len(Delivered) : i # j => Delivered[i] # Delivered[j]

\* C3 witness: the last iteration discarded a second arrival of a segment
\* that was enqueued before, while another segment waits in the buffer.
C3_Witness ==
    /\ rcv_sent = <<>>
    /\ rcv_seq \in Range(enq_seqs)
    /\ rcv_buffer # <<>>

\* C4: the segments sent and not yet cumulatively acknowledged, LFS - LAR,
\* and the entries of the retransmission buffer never number more than SWS.
C4_WindowBound ==
    /\ last_frame_sent - last_ack_received <= SEND_WINDOW_SIZE
    /\ Cardinality(DOMAIN snd_buffer) <= SEND_WINDOW_SIZE

\* C4 witness: the window is full and a further _send waits for a permit.
C4_Witness ==
    /\ appPc = "acquire"
    /\ send_window_not_full = 0
    /\ last_frame_sent - last_ack_received = SEND_WINDOW_SIZE
    /\ Cardinality(DOMAIN snd_buffer) = SEND_WINDOW_SIZE

\* permits taken and not given back: one per segment sent and not yet
\* acknowledged, one for a _send between acquire() and LFS + 1, and one for
\* every release() the ACK thread still owes for the ACK it is processing
PermitsOut ==
    (last_frame_sent - last_ack_received)
    + (IF appPc = "assign" THEN 1 ELSE 0)
    + (IF ackPc = "purge" THEN ackSeq - ackCur
       ELSE IF ackPc = "release" THEN ackSeq - ackI ELSE 0)

\* C5: an ACK k found in the buffer sets LAR = k, removes every entry <= k,
\* and releases k - (old LAR) permits, as many as the entries it removes;
\* the permit count never exceeds SWS (release() never raises).
C5_CumulativeAck ==
    /\ send_window_not_full <= SEND_WINDOW_SIZE
    /\ ackPc # "faulted"
    /\ send_window_not_full + PermitsOut = SEND_WINDOW_SIZE
    /\ ackPc = "purge" =>
          /\ last_ack_received = ackSeq
          /\ Cardinality({j \in DOMAIN snd_buffer : j <= ackSeq})
                = ackSeq - ackCur
    /\ ackPc = "release" =>
          /\ last_ack_received = ackSeq
          /\ ackCur <= ackI /\ ackI < ackSeq
    /\ ackPc \in {"release", "recv"} =>
          /\ \A j \in DOMAIN snd_buffer : j > ackSeq
          /\ last_ack_received = ackSeq

\* C5 witness: ACK 3 was processed with LAR = 0: three entries retired and
\* three permits released while later segments stay in the buffer.
C5_Witness ==
    /\ ackPc = "recv" /\ ackSeq = 3 /\ ackCur = 0 /\ ackI = 3
    /\ last_ack_received = 3
    /\ DOMAIN snd_buffer = {4, 5}
    /\ send_window_not_full = SEND_WINDOW_SIZE - 2

\* C6: segments behind a gap stay in the reorder buffer: what has been
\* enqueued is exactly 1..LFR, nothing at or below LFR + 1 is in the buffer,
\* and a step enqueues k only if LFR+1..k are all in the buffer or arriving.
C6_GapHandling ==
    /\ [](/\ Range(enq_seqs) = 1..last_frame_recd
          /\ \A k \in Keys(rcv_buffer) : k > last_frame_recd + 1)
    /\ [][\A k \in Range(enq_seqs') \ Range(enq_seqs) :
             \A j \in (last_frame_recd + 1)..k :
                 j \in Keys(rcv_buffer) \cup {rcv_seq'}]_vars

\* C6 witness: segment 1 arrived after 2 and 3 had been buffered; that one
\* iteration moved LFR from 0 to 3 and enqueued all three.
C6_Witness ==
    /\ rcv_seq = 1
    /\ rcv_sent = <<0, 3>>
    /\ Range(enq_seqs) = {1, 2, 3}

\* C7: an arriving segment with seq_num <= LFR or seq_num > LFR + RWS
\* changes nothing at the receiver and no ACK is transmitted for it; LAF is
\* LFR + RWS throughout.
C7_OutOfWindow ==
    /\ [](last_acceptable_frame = last_frame_recd + RECV_WINDOW_SIZE)
    /\ [][\A k \in 1..RcvMaxSeq :
             (/\ Arrive(k)
              /\ k <= last_frame_recd \/ k > last_frame_recd + RECV_WINDOW_SIZE)
             => /\ rcv_sent' = <<>>
                /\ UNCHANGED <<last_frame_recd, last_acceptable_frame,
                               rcv_buffer, ready_data, enq_seqs, toSnd>>]_vars

\* C7 witness: the last iteration discarded a segment above LAF, after
\* earlier segments had been accepted.
C7_Witness ==
    /\ rcv_sent = <<>>
    /\ rcv_seq > last_acceptable_frame
    /\ last_frame_recd > 0
    /\ rcv_buffer # <<>>

\* the DATA datagram with sequence number k among those handed to the link
SegmentOf(k) == CHOOSE d \in toRcv : d.seq = k

Size(d) == d.rest[2] - d.rest[1]

CeilDiv(a, b) == (a + b - 1) \div b

\* C8: send(data) hands the link one DATA segment per chunk
\* data[i:i+MAX_DATA_SIZE]: sequence numbers run 1, 2, ... without a gap,
\* every payload has 1..MAX_DATA_SIZE bytes and starts where the payload
\* of the segment before it ends, and when send() returns it has sent
\* ceil(len/MAX_DATA_SIZE) segments, numbered up to LFS, all but the last
\* of full size, which together cover exactly the bytes of data.
C8_Segmentation ==
    /\ {d.seq : d \in toRcv} = 1..Cardinality(toRcv)
    /\ \A d \in toRcv :
          /\ d.tag = DATA
          /\ Size(d) >= 1 /\ Size(d) <= MAX_DATA_SIZE
          /\ d.rest[1] = IF d.seq = 1 THEN 0 ELSE SegmentOf(d.seq - 1).rest[2]
    /\ (appPc = "idle" /\ appData[2] > 0) =>
          LET base == appData[1]
              len == appData[2]
              n == CeilDiv(len, MAX_DATA_SIZE)
              mine == {d \in toRcv : d.rest[1] >= base}
          IN  /\ Cardinality(mine) = n
              /\ {d.seq : d \in mine} = (last_frame_sent - n + 1)..last_frame_sent
              /\ SegmentOf(last_frame_sent - n + 1).rest[1] = base
              /\ SegmentOf(last_frame_sent).rest[2] = base + len
              /\ \A d \in mine :
                    d.seq < last_frame_sent => Size(d) = MAX_DATA_SIZE

\* C8 witness: send() of 3000 bytes has returned after segments 1, 2, 3 of
\* 1400, 1400 and 200 bytes.
C8_Witness ==
    /\ appPc = "idle"
    /\ appData = <<0, 3000>>
    /\ toRcv = {[tag |-> DATA, seq |-> 1, rest |-> <<0, 1400>>],
                [tag |-> DATA, seq |-> 2, rest |-> <<1400, 2800>>],
                [tag |-> DATA, seq |-> 3, rest |-> <<2800, 3000>>]}

\* C9: under fair scheduling and a fair-lossy link, every segment handed to
\* the link is eventually acknowledged at the sender: LAR reaches its
\* sequence number and its buffer entry is removed.
C9_EventualAck ==
    \A k \in 1..MaxSeq :
        (k \in DOMAIN snd_buffer)
            ~> (last_ack_received >= k /\ k \notin DOMAIN snd_buffer)

\* C10: _retransmit(k) for a k that is no longer in the buffer does not
\* fault, transmits nothing, and leaves LAR, LFS, the buffer, the lock and
\* the permits as they were.
C10_TimerAfterPurge ==
    [][\A k \in DOMAIN timer :
          (Retransmit(k) /\ k \notin DOMAIN snd_buffer)
          => /\ timer'[k] # "faulted"
             /\ UNCHANGED <<last_ack_received, last_frame_sent, snd_buffer,
                            lock, send_window_not_full, toRcv>>]_vars

\* C11: an iteration of the sender's ACK loop or of the receiver's loop
\* that gets None, or a datagram that does not decode, changes nothing and
\* leaves the loop alive.
C11_MalformedDropped ==
    [][\A raw \in {None} \cup Undecodable :
          /\ AckLoop(raw) => (ackPc' = "recv" /\ UNCHANGED sndVars)
          /\ RcvLoop(raw) => (rcvPc' = "recv" /\ UNCHANGED <<rcvVars, toSnd>>)]_vars

\* C12: an iteration of the ACK loop that takes an ACK whose seq_num is not
\* a key of the buffer, or a packet that is not an ACK, leaves LAR, LFS, the
\* buffer, every timer and the permits as they were, and the loop goes on to
\* the next datagram.
C12_StaleAck ==
    [][\A raw \in LoopAcks :
          (/\ AckLoop(raw)
           /\ Decodes(raw)
           /\ raw.tag # ACK \/ raw.seq \notin DOMAIN snd_buffer)
          => /\ ackPc' = "recv"
             /\ UNCHANGED <<last_ack_received, last_frame_sent, snd_buffer,
                            timer, send_window_not_full>>]_vars

\* C12 witness: ACK 2 retired segments 1 and 2; afterwards the loop took
\* ACK 1, while a retransmission timer of segment 1 is still running.
C12_Witness ==
    /\ ack_raw = AckBytes(1)
    /\ ackPc = "recv" /\ ackSeq = 2
    /\ last_ack_received = 2
    /\ snd_buffer = <<>>
    /\ TimerOf(1) = "rearmed"
    /\ send_window_not_full = SEND_WINDOW_SIZE

\* C13: with two application threads in send(), no two segments handed to
\* the link carry the same sequence number, no buffer entry holds another
\* payload than the segment transmitted under its number, and between sends
\* LFS is the number of segments handed to the link.
C13_AtomicSend ==
    /\ \A d, e \in toRcv : d.seq = e.seq => d = e
    /\ \A d \in toRcv :
          d.seq \in DOMAIN snd_buffer => snd_buffer[d.seq] = d.rest
    /\ (appPc = "idle" /\ app2Pc = "idle") =>
          last_frame_sent = Cardinality(toRcv)

\* C14: no retransmission timer is running, or has expired with its handler
\* still to run, for a sequence number that is absent from the buffer.
C14_TimersRetired ==
    \A k \in DOMAIN timer :
        timer[k] \in {"armed", "rearmed", "fired"} => k \in DOMAIN snd_buffer

\* the handler of an expired timer of k has retransmitted k and armed a new
\* timer, or k has left the buffer
Retransmitted(k) == TimerOf(k) = "rearmed" \/ k \notin DOMAIN snd_buffer

\* C15: under fair scheduling, every expiry of the timer of a segment that
\* is in the buffer is followed by its retransmission and a new timer for
\* it, unless the segment leaves the buffer, whatever happens to the other
\* segments.
C15_Retransmission ==
    \A k \in 1..MaxSeq :
        (TimerOf(k) = "fired" /\ k \in DOMAIN snd_buffer) ~> Retransmitted(k)

\* C16: a DATA segment is put on the link only with its entry in the
\* buffer, and every segment handed to the link so far whose sequence number
\* is greater than LAR is a key of the buffer, mapped to the payload it was
\* sent with (one application thread).
C16_BufferBeforeTransmit ==
    /\ [](\A d \in toRcv :
             d.seq > last_ack_received
             => d.seq \in DOMAIN snd_buffer /\ snd_buffer[d.seq] = d.rest)
    /\ [][\A d \in toRcv' \ toRcv :
             d.seq \in DOMAIN snd_buffer' /\ snd_buffer'[d.seq] = d.rest]_vars

\* C16 witness: the ACK of the segment just transmitted arrives before
\* _send has started its timer, and finds the entry; earlier segments are
\* still unacknowledged.
C16_Witness ==
    /\ appPc = "start" /\ appSeq = 3
    /\ ackPc = "cancel" /\ ackSeq = 3
    /\ last_ack_received = 0
    /\ DOMAIN snd_buffer = {1, 2, 3}
    /\ TimerOf(1) = "rearmed"

\* the datagram of an ACK packet with sequence number n and no data
AckOf(n) == [tag |-> ACK, seq |-> n, rest |-> NoData]

\* C17: an iteration that accepts an in-window segment transmits two ACKs,
\* the first with LFR as it was, the second with the new LFR, and LAF is the
\* new LFR + RWS; every ACK transmitted carries a number that is at most the
\* LFR of the moment, and LFR never decreases, so ACK numbers never decrease.
C17_DoubleAck ==
    /\ [](/\ \A a \in toSnd : a.tag = ACK /\ a.seq <= last_frame_recd
          /\ rcv_sent # <<>> =>
                /\ Len(rcv_sent) = 2
                /\ rcv_sent[1] <= rcv_sent[2]
                /\ rcv_sent[2] = last_frame_recd
                /\ last_acceptable_frame = last_frame_recd + RECV_WINDOW_SIZE)
    /\ [][/\ last_frame_recd' >= last_frame_recd
          /\ \A k \in 1..RcvMaxSeq :
                (/\ Arrive(k)
                 /\ k > last_frame_recd
                 /\ k <= last_frame_recd + RECV_WINDOW_SIZE)
                => /\ rcv_sent' = <<last_frame_recd, last_frame_recd'>>
                   /\ toSnd' = toSnd \cup {AckOf(last_frame_recd),
                                           AckOf(last_frame_recd')}]_vars

\* C17 witness: segment 2 arrived with LFR = 1 while 3 was buffered: the
\* iteration transmitted ACK 1 and then ACK 3, and an earlier iteration
\* that stored a segment behind a gap transmitted ACK 1 twice.
C17_Witness ==
    /\ rcv_seq = 2
    /\ rcv_sent = <<1, 3>>
    /\ last_frame_recd = 3
    /\ last_acceptable_frame = 3 + RECV_WINDOW_SIZE
    /\ toSnd = {AckOf(0), AckOf(1), AckOf(3)}

\* C18: the sender lock is free whenever no thread is inside a critical
\* section: no thread has ended while holding it.
C18_LockReleased == lock = "free"

\* C19: LAR <= LFR <= LFS in every state of a sender/receiver pair, and no
\* step decreases LAR, LFR or LFS (one application thread).
C19_WindowOrder ==
    /\ [](/\ last_ack_received <= last_frame_recd
          /\ last_frame_recd <= last_frame_sent)
    /\ [][/\ last_ack_received' >= last_ack_received
          /\ last_frame_recd' >= last_frame_recd
          /\ last_frame_sent' >= last_frame_sent]_vars

\* C19 witness: both segments are delivered and acknowledged while the
\* ACK 1 of an earlier iteration is still in flight to the ACK loop.
C19_Witness ==
    /\ last_ack_received = 2
    /\ last_frame_recd = 2
    /\ last_frame_sent = 2
    /\ ackPc = "recv"
    /\ AckOf(1) \in toSnd

\* C20: an iteration of a worker loop that runs on a well-formed datagram
\* before the constructor of its object has assigned the sliding-window
\* fields does not read a field that does not exist yet (the thread does
\* not end with AttributeError).
C20_ConstructorRace ==
    [][/\ \A raw \in CtorAcks :
             (AckLoop(raw) /\ sndCtor # "done") => ackPc' # "faulted"
       /\ \A raw \in CtorDatas :
             (RcvLoop(raw) /\ rcvCtor # "done") => rcvPc' # "faulted"]_vars

====
